---- MODULE Spec2Model ----
(***************************************************************************)
(* Calendar CLI (src/main.go): one interactive session.                    *)
(* A session reads the application config, obtains an OAuth client         *)
(* (cached token file or authorization-code flow), selects a calendar,     *)
(* and dispatches one event operation.                                     *)
(*                                                                         *)
(* Text is a tuple of one-character strings, so that TrimSpace, ToLower,   *)
(* Sscanf and time.Parse are computed on characters as the Go library      *)
(* computes them.                                                          *)
(***************************************************************************)
EXTENDS Integers, Sequences, FiniteSets, TLC

VARIABLES
    pc,                 \* position of the single control thread
    credentials,        \* state of the file credentials.json
    tokenFile,          \* the file <home>/token.json
    tok,                \* getClient: tok
    code,               \* getTokenFromWeb: code
    calendars,          \* selectCalendar: calendars
    calendarSelection,  \* selectCalendar: calendarSelection
    calendarID,         \* main: calendarID
    opChoice,           \* main: opChoice
    op,                 \* locals of the running event operation
    opErr,              \* main: opErr
    exitCode,           \* process exit status, -1 while running
    stderr,             \* message of log.Fatalf
    stdin,              \* os.Stdin: the lines waiting to be read
    log                 \* effects so far: prints, prompts, file and remote calls

vars == <<pc, credentials, tokenFile, tok, code, calendars, calendarSelection,
          calendarID, opChoice, op, opErr, exitCode, stderr, stdin, log>>

----------------------------------------------------------------------------
(* Program constants *)

timeZone == "Asia/Kolkata"

\* UTC offset of Asia/Kolkata, in minutes (+05:30, no daylight saving)
KolkataOffset == 330

----------------------------------------------------------------------------
(* Bounds *)

\* largest number of calendars the remote service lists
MaxCalendars == 3

\* how many times the program is run again after its first run
MaxRestarts == 1

\* largest number of lines that wait on standard input when the program
\* starts
MaxPiped == 2

----------------------------------------------------------------------------
(* Characters and text *)

Digits == {"0", "1", "2", "3", "4", "5", "6", "7", "8", "9"}

DigitVal == [c \in Digits |->
    CASE c = "0" -> 0 [] c = "1" -> 1 [] c = "2" -> 2 [] c = "3" -> 3
      [] c = "4" -> 4 [] c = "5" -> 5 [] c = "6" -> 6 [] c = "7" -> 7
      [] c = "8" -> 8 [] c = "9" -> 9]

\* unicode.IsSpace on the characters that occur on an input line
IsSpace(c) == c \in {" ", "\t", "\n", "\r"}

RECURSIVE TrimLeft(_)
TrimLeft(s) ==
    IF s # <<>> /\ IsSpace(Head(s)) THEN TrimLeft(Tail(s)) ELSE s

RECURSIVE TrimRight(_)
TrimRight(s) ==
    IF s # <<>> /\ IsSpace(s[Len(s)])
    THEN TrimRight(SubSeq(s, 1, Len(s) - 1))
    ELSE s

\* strings.TrimSpace
TrimSpace(s) == TrimRight(TrimLeft(s))

LowerOf(c) ==
    CASE c = "Y" -> "y" [] c = "N" -> "n" [] c = "E" -> "e" [] c = "S" -> "s"
      [] c = "T" -> "t" [] c = "Z" -> "z" [] OTHER -> c

\* strings.ToLower
ToLower(s) == [i \in 1..Len(s) |-> LowerOf(s[i])]

\* a line as typed: the text followed by the newline ReadString stops at
Line(s) == s \o <<"\n">>

\* promptForInput, given the outcome of reader.ReadString('\n'):
\* the trimmed line, or the read error
ReadErr == [err |-> TRUE, text |-> <<>>]
promptForInput(read) ==
    IF read.err THEN [err |-> TRUE, text |-> <<>>]
    ELSE [err |-> FALSE, text |-> TrimSpace(read.text)]

\* outcomes of ReadString on standard input when the operator may type
\* any of the lines Texts or close the input
Reads(Texts) == {ReadErr} \cup {[err |-> FALSE, text |-> Line(t)] : t \in Texts}

----------------------------------------------------------------------------
(* Package time, as far as parseTime and the range checks use it.          *)
(* A Time is its civil fields in its location plus that location's UTC     *)
(* offset in minutes; the instant is the civil minute count minus the      *)
(* offset.                                                                 *)

IsDigit(s, i) == i <= Len(s) /\ s[i] \in Digits

isLeap(year) == year % 4 = 0 /\ (year % 100 # 0 \/ year % 400 = 0)

daysIn(month, year) ==
    IF month = 2 THEN (IF isLeap(year) THEN 29 ELSE 28)
    ELSE IF month \in {4, 6, 9, 11} THEN 30 ELSE 31

RECURSIVE daysBefore(_, _)
daysBefore(month, year) ==
    IF month <= 1 THEN 0
    ELSE daysBefore(month - 1, year) + daysIn(month - 1, year)

\* days from 0000-01-01 to the first day of the year
daysSinceEpoch(year) ==
    IF year = 0 THEN 0
    ELSE 365 * year + ((year - 1) \div 4) - ((year - 1) \div 100)
         + ((year - 1) \div 400) + 1

\* time.Date(year, month, day, hour, min, 0, 0, loc)
Date(year, month, day, hour, min, offset) ==
    [year |-> year, month |-> month, day |-> day, hour |-> hour,
     min |-> min, offset |-> offset]

\* the zero Time: January 1, year 1, 00:00 UTC
ZeroTime == Date(1, 1, 1, 0, 0, 0)

\* minutes from 0000-01-01T00:00Z to the instant of t
Instant(t) ==
    (daysSinceEpoch(t.year) + daysBefore(t.month, t.year) + t.day - 1) * 1440
    + t.hour * 60 + t.min - t.offset

\* Time.Before
Before(t, u) == Instant(t) < Instant(u)

\* getnum(s, fixed): one or two leading digits (two when fixed)
getnum(s, fixed) ==
    IF ~IsDigit(s, 1) THEN [err |-> TRUE, n |-> 0, rest |-> s]
    ELSE IF ~IsDigit(s, 2)
         THEN (IF fixed THEN [err |-> TRUE, n |-> 0, rest |-> s]
               ELSE [err |-> FALSE, n |-> DigitVal[s[1]], rest |-> Tail(s)])
         ELSE [err |-> FALSE, n |-> DigitVal[s[1]] * 10 + DigitVal[s[2]],
               rest |-> Tail(Tail(s))]

RECURSIVE cutspace(_)
cutspace(s) == IF s # <<>> /\ Head(s) = " " THEN cutspace(Tail(s)) ELSE s

\* skip(value, prefix) for a one-character literal of the layout: a space
\* of the layout matches one or more spaces, any other character itself
skip(value, c) ==
    IF c = " "
    THEN (IF value # <<>> /\ Head(value) # " "
          THEN [err |-> TRUE, rest |-> value]
          ELSE [err |-> FALSE, rest |-> cutspace(value)])
    ELSE (IF value = <<>> \/ Head(value) # c
          THEN [err |-> TRUE, rest |-> value]
          ELSE [err |-> FALSE, rest |-> Tail(value)])

ParseErr == [err |-> TRUE, t |-> ZeroTime]

\* time.Parse(timeFormat, input), timeFormat = "2006-01-02 15:04": a year
\* of four digits, "-", a month of two digits, "-", a day of two digits,
\* spaces, an hour of one or two digits, ":", a minute of two digits, and
\* nothing after; the fields range-checked; the result is in UTC
ParseTimeFormat(input) ==
    IF ~(Len(input) >= 4 /\ \A i \in 1..4 : IsDigit(input, i)) THEN ParseErr
    ELSE
    LET year == DigitVal[input[1]] * 1000 + DigitVal[input[2]] * 100
                + DigitVal[input[3]] * 10 + DigitVal[input[4]]
        s1 == skip(SubSeq(input, 5, Len(input)), "-")
        mo == getnum(s1.rest, TRUE)
        s2 == skip(mo.rest, "-")
        d  == getnum(s2.rest, TRUE)
        s3 == skip(d.rest, " ")
        h  == getnum(s3.rest, FALSE)
        s4 == skip(h.rest, ":")
        mi == getnum(s4.rest, TRUE)
    IN  IF s1.err \/ mo.err \/ mo.n <= 0 \/ 12 < mo.n THEN ParseErr
        ELSE IF s2.err \/ d.err THEN ParseErr
        ELSE IF s3.err \/ h.err \/ 24 <= h.n THEN ParseErr
        ELSE IF s4.err \/ mi.err \/ 60 <= mi.n THEN ParseErr
        ELSE IF mi.rest # <<>> THEN ParseErr
        ELSE IF d.n < 1 \/ d.n > daysIn(mo.n, year) THEN ParseErr
        ELSE [err |-> FALSE, t |-> Date(year, mo.n, d.n, h.n, mi.n, 0)]

\* the absent date-time of an event bound (the empty string)
NoDateTime == [empty |-> TRUE]

\* t.Format(time.RFC3339): the civil fields of t in its location, seconds
\* 00, and the location's offset ("Z" when it is UTC)
FormatRFC3339(t) ==
    [empty |-> FALSE, year |-> t.year, month |-> t.month, day |-> t.day,
     hour |-> t.hour, min |-> t.min, sec |-> 0,
     zone |-> IF t.offset = 0 THEN "Z" ELSE "offset", offset |-> t.offset]

\* time.Parse(time.RFC3339, w) with the error discarded: the zero Time when
\* w does not parse (the empty string of an all-day bound)
ParseRFC3339(w) ==
    IF w.empty THEN ZeroTime
    ELSE Date(w.year, w.month, w.day, w.hour, w.min, w.offset)

\* parseTime
parseTime(input) ==
    LET p == ParseTimeFormat(input)
    IN  IF p.err
        THEN [err |-> <<"invalid time format (use YYYY-MM-DD HH:MM)", "parse">>,
              wire |-> NoDateTime]
        ELSE [err |-> <<>>, wire |-> FormatRFC3339(p.t)]

----------------------------------------------------------------------------
(* Errors are message chains: fmt.Errorf("...: %w", err) puts its text in  *)
(* front of the chain of err; the nil error is the empty chain.            *)

NoError == <<>>
Wrap(msg, err) == <<msg>> \o err

----------------------------------------------------------------------------
(* Credential store: tokenFromFile and saveToken on <home>/token.json      *)

\* credentials the remote service issues on a code exchange; raw is the
\* unexported field holding the server's response
IssuedTokens ==
    {[AccessToken |-> "access1", TokenType |-> "Bearer",
      RefreshToken |-> "refresh1", Expiry |-> 1, raw |-> "response1"],
     [AccessToken |-> "access2", TokenType |-> "Bearer",
      RefreshToken |-> "refresh2", Expiry |-> 2, raw |-> "response2"]}

NoToken ==
    [AccessToken |-> "", TokenType |-> "", RefreshToken |-> "", Expiry |-> 0,
     raw |-> "nil"]

Encode_noRefresh(token) ==
    [kind |-> "json", access_token |-> token.AccessToken,
     token_type |-> token.TokenType, refresh_token |-> "",
     expiry |-> token.Expiry]

\* json.NewEncoder(f).Encode(token): the exported fields
Encode(token) ==
    [kind |-> "json", access_token |-> token.AccessToken,
     token_type |-> token.TokenType, refresh_token |-> token.RefreshToken,
     expiry |-> token.Expiry]

EmptyData == [kind |-> "empty"]
GarbageData == [kind |-> "garbage"]

NoFile == [exists |-> FALSE, perm |-> "none", data |-> EmptyData]

\* the owner may read and write a file of these permission bits
OwnerRW(perm) == perm \in {"0600", "0644"}

\* tokenFromFile
tokenFromFile(file) ==
    IF ~file.exists THEN [err |-> <<"open: no such file or directory">>, tok |-> NoToken]
    ELSE IF ~OwnerRW(file.perm) THEN [err |-> <<"open: permission denied">>, tok |-> NoToken]
    ELSE IF file.data.kind = "empty" THEN [err |-> <<"EOF">>, tok |-> NoToken]
    ELSE IF file.data.kind # "json" THEN [err |-> <<"invalid character">>, tok |-> NoToken]
    ELSE [err |-> NoError,
          tok |-> [AccessToken |-> file.data.access_token,
                   TokenType |-> file.data.token_type,
                   RefreshToken |-> file.data.refresh_token,
                   Expiry |-> file.data.expiry, raw |-> "nil"]]

\* the token files a session may find
InitialTokenFiles ==
    {NoFile,
     [exists |-> TRUE, perm |-> "0644", data |-> GarbageData],
     [exists |-> TRUE, perm |-> "0000", data |-> GarbageData],
     [exists |-> TRUE, perm |-> "0644",
      data |-> Encode(CHOOSE t \in IssuedTokens : t.Expiry = 1)]}

----------------------------------------------------------------------------
(* Calendar selector *)

DigitChar(i) == CHOOSE c \in Digits : DigitVal[c] = i

\* the i-th calendar of the account
CalendarEntry(i) ==
    [Id |-> <<"c", "a", "l", DigitChar(i)>>, Summary |-> <<"C", DigitChar(i)>>]

\* the lists CalendarList.List may return
CalendarLists == {[i \in 1..n |-> CalendarEntry(i)] : n \in 0..MaxCalendars}

RECURSIVE scanDigits(_)
\* the digits s starts with
scanDigits(s) ==
    IF s # <<>> /\ Head(s) \in Digits THEN <<Head(s)>> \o scanDigits(Tail(s))
    ELSE <<>>

RECURSIVE decimal(_, _)
decimal(ds, acc) ==
    IF ds = <<>> THEN acc ELSE decimal(Tail(ds), acc * 10 + DigitVal[Head(ds)])

\* fmt.Sscanf(str, "%d", new(int)): skips leading space, accepts a sign,
\* scans the digits that follow and stops there; n is the number of items
\* stored, val the integer stored in the argument
Sscanf(str) ==
    LET s == TrimLeft(str)
        signed == s # <<>> /\ Head(s) \in {"+", "-"}
        body == IF signed THEN Tail(s) ELSE s
        ds == scanDigits(body)
    IN  IF s = <<>> THEN [n |-> 0, err |-> <<"unexpected EOF">>, val |-> 0]
        ELSE IF ds = <<>> THEN [n |-> 0, err |-> <<"expected integer">>, val |-> 0]
        ELSE [n |-> 1, err |-> NoError,
              val |-> IF signed /\ Head(s) = "-" THEN 0 - decimal(ds, 0)
                      ELSE decimal(ds, 0)]

\* selectCalendar, lines 146-158: from the listed calendars and the line read
selectCalendar(cals, selection) ==
    LET first == Sscanf(selection)
        index == first.n
    IN  IF first.err = NoError /\ index > 0
        THEN LET idx == Sscanf(selection).n
             IN  IF idx <= Len(cals) /\ idx > 0
                 THEN [err |-> NoError, id |-> cals[idx].Id]
                 ELSE [err |-> <<"invalid calendar number">>, id |-> <<>>]
        ELSE [err |-> NoError, id |-> selection]

----------------------------------------------------------------------------
(* Events and the operator's inputs *)

NoEvent == [nil |-> TRUE]

\* the locals of an event operation before it has run
NoOp ==
    [id |-> <<>>, title |-> <<>>, desc |-> <<>>, updateTime |-> <<>>,
     startInput |-> <<>>, endInput |-> <<>>,
     startTime |-> NoDateTime, endTime |-> NoDateTime,
     confirm |-> <<>>, event |-> NoEvent, fetched |-> NoEvent]

\* calendar.EventDateTime
EventDateTime(dateTime, date, zone) ==
    [DateTime |-> dateTime, Date |-> date, TimeZone |-> zone]

\* an event with a date-time in Asia/Kolkata, and an all-day event
TimedEvent(id) ==
    [nil |-> FALSE, Id |-> id, Summary |-> <<"O", "l", "d">>,
     Description |-> <<"o", "l", "d">>,
     Start |-> EventDateTime(FormatRFC3339(Date(2024, 3, 15, 9, 0, KolkataOffset)),
                             "", timeZone),
     End |-> EventDateTime(FormatRFC3339(Date(2024, 3, 15, 10, 0, KolkataOffset)),
                           "", timeZone),
     Status |-> "confirmed"]

AllDayEvent(id) ==
    [nil |-> FALSE, Id |-> id, Summary |-> <<"D", "a", "y">>,
     Description |-> <<>>,
     Start |-> EventDateTime(NoDateTime, "2024-03-15", ""),
     End |-> EventDateTime(NoDateTime, "2024-03-16", ""),
     Status |-> "confirmed"]

\* the events Events.Get may return for an identifier
RemoteEvents(id) == {TimedEvent(id), AllDayEvent(id)}

\* lines the operator types
AuthCodes == {<<"4", "/", "x">>}

Selections ==
    {<<"1">>, <<"2">>, <<"7">>, <<"0">>, <<"-", "3">>, <<"2", "a", "b", "c">>,
     <<"c", "a", "l", "_", "x">>, <<>>}

Choices == {<<"1">>, <<"2">>, <<"3">>, <<"4">>, <<"5">>, <<"6">>, <<>>}

EventIds == {<<"e", "1">>}

Titles == {<<>>, <<" ">>, <<"N", "e", "w">>}

Descriptions == {<<>>, <<"n", "e", "w">>}

YesNo == {<<"y">>, <<"Y">>, <<"n">>, <<>>}

Confirmations == {<<"y">>, <<"Y">>, <<"n">>, <<"y", "e", "s">>, <<>>}

T0929 == <<"2", "0", "2", "4", "-", "0", "3", "-", "1", "5", " ", "0", "9", ":", "2", "9">>
T0930 == <<"2", "0", "2", "4", "-", "0", "3", "-", "1", "5", " ", "0", "9", ":", "3", "0">>
TLeap == <<"2", "0", "2", "4", "-", "0", "2", "-", "2", "9", " ", "2", "3", ":", "5", "9">>
TBad  == <<"2", "0", "2", "4", "-", "0", "3", "-", "1", "5">>
\* a one-digit hour after two spaces
TLoose == <<"2", "0", "2", "4", "-", "0", "3", "-", "1", "5", " ", " ", "9", ":", "3", "0">>

\* time texts typed in Create
CreateTimes == {T0929, T0930, TLeap, TBad, TLoose}

\* time texts typed in Update, where a blank line keeps the bound
UpdateTimes == {T0929, T0930, TLeap, TBad, <<>>}

----------------------------------------------------------------------------
(* Standard input.  Either the operator types each line after its prompt   *)
(* (piped is FALSE), or standard input is a pipe or a file that holds a    *)
(* whole script when the program starts: lines counts its lines, pending   *)
(* those not yet read from the descriptor, taken those read from it.  The  *)
(* lines are short: a script fits the 4096 bytes of a bufio.Reader.        *)

StandardInputs ==
    {[piped |-> FALSE, lines |-> 0, pending |-> 0, taken |-> 0]} \cup
    {[piped |-> TRUE, lines |-> n, pending |-> n, taken |-> 0] : n \in 0..MaxPiped}

\* reader.ReadString('\n') on a reader made for this one call, lines
\* 100-101: on a script it fails at the end of the input and succeeds before
Readable(read) == stdin.piped => (read.err <=> stdin.pending = 0)

\* the reader fills its buffer with one read of the descriptor, which
\* takes every line that waits; ReadString returns the first of them and
\* the others are dropped with the reader when promptForInput returns
Consume(read) ==
    stdin' = IF read.err THEN stdin
             ELSE IF stdin.piped
             THEN [stdin EXCEPT !.taken = @ + stdin.pending, !.pending = 0]
             ELSE [stdin EXCEPT !.taken = @ + 1]

----------------------------------------------------------------------------
(* The session *)

Init ==
    /\ pc = "main"
    /\ credentials \in {"missing", "malformed", "ok"}
    /\ tokenFile \in InitialTokenFiles
    /\ tok = NoToken
    /\ code = <<>>
    /\ calendars = <<>>
    /\ calendarSelection = <<>>
    /\ calendarID = <<>>
    /\ opChoice = <<>>
    /\ op = NoOp
    /\ opErr = NoError
    /\ exitCode = -1
    /\ stderr = <<>>
    /\ stdin \in StandardInputs
    /\ log = <<>>

\* log.Fatalf: print the message and exit with status 1
Fatalf(msg) ==
    /\ pc' = "exited"
    /\ exitCode' = 1
    /\ stderr' = msg

\* an event operation returns err to main, lines 441-443
Return(err) ==
    /\ opErr' = err
    /\ pc' = "exited"
    /\ exitCode' = IF err = NoError THEN 0 ELSE 1
    /\ stderr' = IF err = NoError THEN <<>> ELSE Wrap("Operation failed", err)

\* what a prompt adds to the log: the label printed and, unless the read
\* fails, the line returned and its position among the lines of standard
\* input
Asked(label, read) ==
    IF read.err THEN << <<"prompt", label>> >>
    ELSE << <<"prompt", label>>, <<"line", read.text, stdin.taken + 1>> >>

Prompt(label, read) ==
    /\ Readable(read)
    /\ Consume(read)
    /\ log' = log \o Asked(label, read)

selectorVars == <<code, calendars, calendarSelection, calendarID>>

ReadConfig_goesOn ==
    /\ pc = "main"
    /\ UNCHANGED stdin
    /\ log' = Append(log, <<"read", "credentials.json">>)
    /\ pc' = "getClient"
    /\ UNCHANGED <<exitCode, stderr>>
    /\ UNCHANGED <<credentials, tokenFile, tok, selectorVars, opChoice, op, opErr>>

\* main, lines 384-395: read and parse credentials.json
ReadConfig ==
    /\ pc = "main"
    /\ UNCHANGED stdin
    /\ log' = Append(log, <<"read", "credentials.json">>)
    /\ IF credentials = "missing"
       THEN Fatalf(<<"Unable to read credentials file (credentials.json)",
                     "open: no such file or directory">>)
       ELSE IF credentials = "malformed"
       THEN Fatalf(<<"Unable to parse client secret file to config",
                     "invalid character">>)
       ELSE pc' = "getClient" /\ UNCHANGED <<exitCode, stderr>>
    /\ UNCHANGED <<credentials, tokenFile, tok, selectorVars, opChoice, op, opErr>>

afterLoad_always(err) == "getTokenFromWeb"

\* getClient, line 47: only a failed load starts the authorization flow
afterLoad(err) == IF err # NoError THEN "getTokenFromWeb" ELSE "client"

\* getClient, lines 41-47: find the token path and load the cached token
LoadToken ==
    /\ pc = "getClient"
    /\ UNCHANGED stdin
    /\ \E userOk \in BOOLEAN :
        IF ~userOk
        THEN /\ Fatalf(<<"Unable to get OAuth client",
                         "failed to get current user", "user: lookup failed">>)
             /\ UNCHANGED <<tok, log>>
        ELSE LET r == tokenFromFile(tokenFile)
             IN  /\ log' = Append(log, <<"load", r.err = NoError, tokenFile, r.tok>>)
                 /\ tok' = r.tok
                 /\ pc' = afterLoad(r.err)
                 /\ UNCHANGED <<exitCode, stderr>>
    /\ UNCHANGED <<credentials, tokenFile, selectorVars, opChoice, op, opErr>>

\* getTokenFromWeb, lines 73-80: print the authorization URL and read the code
ReadAuthCode ==
    /\ pc = "getTokenFromWeb"
    /\ \E read \in Reads(AuthCodes) : Readable(read) /\ Consume(read) /\
        LET r == promptForInput(read)
        IN  /\ log' = log \o << <<"print", "authURL">> >>
                           \o Asked("Authorization code: ", read)
            /\ IF r.err
               THEN /\ Fatalf(<<"Unable to get OAuth client",
                                "failed to read authorization code", "EOF">>)
                    /\ UNCHANGED code
               ELSE /\ code' = r.text
                    /\ pc' = "Exchange"
                    /\ UNCHANGED <<exitCode, stderr>>
    /\ UNCHANGED <<credentials, tokenFile, tok, calendars, calendarSelection,
                   calendarID, opChoice, op, opErr>>

\* causes of a failed code exchange
ExchangeErrors == {"oauth2: invalid_grant", "dial tcp: no route to host"}

exchangeError_bare(cause) == <<"unable to retrieve token from web">>

\* getTokenFromWeb, line 84: the error of a failed exchange wraps its cause
exchangeError(cause) == Wrap("unable to retrieve token from web", <<cause>>)

Exchange_unsaved ==
    /\ pc = "Exchange"
    /\ UNCHANGED stdin
    /\ \/ \E cause \in ExchangeErrors :
            /\ log' = Append(log, <<"Exchange", code, cause>>)
            /\ Fatalf(Wrap("Unable to get OAuth client", exchangeError(cause)))
            /\ UNCHANGED tok
       \/ \E t \in IssuedTokens :
            /\ log' = Append(log, <<"Exchange", code, "ok">>)
            /\ tok' = t
            /\ pc' = "client"
            /\ UNCHANGED <<exitCode, stderr>>
    /\ UNCHANGED <<credentials, tokenFile, selectorVars, opChoice, op, opErr>>

\* getTokenFromWeb, lines 82-86, and getClient lines 49-52: exchange the
\* code for a token
Exchange ==
    /\ pc = "Exchange"
    /\ UNCHANGED stdin
    /\ \/ \E cause \in ExchangeErrors :
            /\ log' = Append(log, <<"Exchange", code, cause>>)
            /\ Fatalf(Wrap("Unable to get OAuth client", exchangeError(cause)))
            /\ UNCHANGED tok
       \/ \E t \in IssuedTokens :
            /\ log' = Append(log, <<"Exchange", code, "ok">>)
            /\ tok' = t
            /\ pc' = "saveToken"
            /\ UNCHANGED <<exitCode, stderr>>
    /\ UNCHANGED <<credentials, tokenFile, selectorVars, opChoice, op, opErr>>

\* saveToken, lines 90-93: open the file, creating it with mode 0600 or
\* truncating the one that exists
OpenTokenFile ==
    /\ pc = "saveToken"
    /\ UNCHANGED stdin
    /\ \E ok \in BOOLEAN :
        IF ~ok \/ (tokenFile.exists /\ ~OwnerRW(tokenFile.perm))
        THEN /\ Fatalf(<<"Unable to get OAuth client",
                         "unable to cache oauth token", "open: permission denied">>)
             /\ UNCHANGED <<tokenFile, log>>
        ELSE /\ tokenFile' = [exists |-> TRUE,
                              perm |-> IF tokenFile.exists THEN tokenFile.perm
                                       ELSE "0600",
                              data |-> EmptyData]
             /\ log' = Append(log, <<"truncate", "token.json", tokenFile>>)
             /\ pc' = "Encode"
             /\ UNCHANGED <<exitCode, stderr>>
    /\ UNCHANGED <<credentials, tok, selectorVars, opChoice, op, opErr>>

\* what a failed write leaves in the truncated file: nothing, or the
\* beginning of the record
FailedWrites(data) == {EmptyData, [kind |-> "partial", of |-> data]}

\* saveToken, lines 94-95: encode the token into the open file
EncodeToken ==
    /\ pc = "Encode"
    /\ UNCHANGED stdin
    /\ \/ /\ tokenFile' = [tokenFile EXCEPT !.data = Encode(tok)]
          /\ log' = Append(log, <<"write", Encode(tok)>>)
          /\ pc' = "client"
          /\ UNCHANGED <<exitCode, stderr>>
       \/ \E left \in FailedWrites(Encode(tok)) :
            /\ tokenFile' = [tokenFile EXCEPT !.data = left]
            /\ log' = Append(log, <<"write", left>>)
            /\ Fatalf(<<"Unable to get OAuth client", "write: no space left on device">>)
    /\ UNCHANGED <<credentials, tok, selectorVars, opChoice, op, opErr>>

\* getClient line 58 and main, lines 402-405: wrap the token into a client
\* and create the calendar service
NewService ==
    /\ pc = "client"
    /\ UNCHANGED stdin
    /\ log' = Append(log, <<"client", tok>>)
    /\ \E ok \in BOOLEAN :
        IF ok THEN pc' = "listCalendars" /\ UNCHANGED <<exitCode, stderr>>
        ELSE Fatalf(<<"Unable to create Calendar service", "option error">>)
    /\ UNCHANGED <<credentials, tokenFile, tok, selectorVars, opChoice, op, opErr>>

\* listCalendars, and selectCalendar lines 132-139
ListCalendars ==
    /\ pc = "listCalendars"
    /\ UNCHANGED stdin
    /\ \/ /\ log' = Append(log, <<"CalendarList.List", "error">>)
          /\ Fatalf(<<"Failed to select calendar",
                      "unable to retrieve calendars", "googleapi: Error 403">>)
          /\ UNCHANGED calendars
       \/ \E items \in CalendarLists :
            /\ log' = Append(log, <<"CalendarList.List", "ok">>)
            /\ calendars' = items
            /\ IF Len(items) = 0
               THEN Fatalf(<<"Failed to select calendar",
                             "no calendars found in your account">>)
               ELSE pc' = "calendarSelection" /\ UNCHANGED <<exitCode, stderr>>
    /\ UNCHANGED <<credentials, tokenFile, tok, code, calendarSelection,
                   calendarID, opChoice, op, opErr>>

\* selectCalendar, lines 141-158, and main lines 407-410
SelectCalendar ==
    /\ pc = "calendarSelection"
    /\ \E read \in Reads(Selections) : Prompt("Enter calendar number or ID: ", read) /\
        LET r == promptForInput(read)
            sel == selectCalendar(calendars, r.text)
        IN  IF r.err
            THEN /\ Fatalf(<<"Failed to select calendar", "EOF">>)
                 /\ UNCHANGED <<calendarSelection, calendarID>>
            ELSE /\ calendarSelection' = r.text
                 /\ calendarID' = sel.id
                 /\ IF sel.err # NoError
                    THEN Fatalf(Wrap("Failed to select calendar", sel.err))
                    ELSE pc' = "opChoice" /\ UNCHANGED <<exitCode, stderr>>
    /\ UNCHANGED <<credentials, tokenFile, tok, code, calendars, opChoice, op, opErr>>

dispatch_shifted(choice) ==
    IF choice = <<"1">> THEN "listEvents"
    ELSE IF choice = <<"2">> THEN "createEvent"
    ELSE IF choice = <<"3">> THEN "getEvent"
    ELSE IF choice = <<"4">> THEN "updateEvent"
    ELSE IF choice = <<"5">> THEN "deleteEvent"
    ELSE IF choice = <<"6">> THEN "deleteEvent"
    ELSE "default"

\* main, lines 426-439: the switch on the choice
dispatch(choice) ==
    IF choice = <<"1">> THEN "listEvents"
    ELSE IF choice = <<"2">> THEN "createEvent"
    ELSE IF choice = <<"3">> THEN "getEvent"
    ELSE IF choice = <<"4">> THEN "updateEvent"
    ELSE IF choice = <<"5">> THEN "deleteEvent"
    ELSE "default"

\* main, lines 412-439: read the menu choice and dispatch
Menu ==
    /\ pc = "opChoice"
    /\ \E read \in Reads(Choices) : Prompt("Enter choice (1-5): ", read) /\
        LET r == promptForInput(read)
        IN  IF r.err
            THEN /\ Fatalf(<<"Failed to read operation choice", "EOF">>)
                 /\ UNCHANGED opChoice
            ELSE /\ opChoice' = r.text
                 /\ IF dispatch(r.text) # "default"
                    THEN pc' = dispatch(r.text) /\ UNCHANGED <<exitCode, stderr>>
                    ELSE Fatalf(<<"Invalid operation">> \o <<r.text>>)
    /\ UNCHANGED <<credentials, tokenFile, tok, selectorVars, op, opErr>>

----------------------------------------------------------------------------
(* Event operations.  Each action runs the operation from one blocking     *)
(* call (a prompt or a remote call) up to the next.                        *)

sessionVars == <<credentials, tokenFile, tok, selectorVars, opChoice>>

Continue(next) == pc' = next /\ UNCHANGED <<opErr, exitCode, stderr>>

ReadError == <<"EOF">>

RemoteError == <<"googleapi: Error 404: Not Found">>

EndBeforeStart == <<"end time cannot be before start time">>

\* the text listEvents prints for a bound: the date when there is no date-time
Display(bound) == IF bound.DateTime.empty THEN bound.Date ELSE bound.DateTime

\* listEvents
ListEvents ==
    /\ pc = "listEvents"
    /\ UNCHANGED stdin
    /\ \/ /\ log' = Append(log, <<"Events.List", calendarID>>)
          /\ Return(Wrap("unable to retrieve events", RemoteError))
       \/ /\ log' = log \o << <<"Events.List", calendarID>>,
                             <<"print", "No upcoming events found.">> >>
          /\ Return(NoError)
       \/ \E e \in RemoteEvents(<<"e", "1">>) :
            /\ log' = log \o << <<"Events.List", calendarID>>,
                               <<"print", "Upcoming events:">>,
                               <<"print", "event", e.Summary, Display(e.Start), Display(e.End)>> >>
            /\ Return(NoError)
    /\ UNCHANGED <<sessionVars, op>>

\* createEvent, lines 199-202
CreateTitle ==
    /\ pc = "createEvent"
    /\ \E read \in Reads(Titles) : Prompt("Title: ", read) /\
        LET r == promptForInput(read)
        IN  IF r.err THEN Return(ReadError) /\ UNCHANGED op
            ELSE op' = [op EXCEPT !.title = r.text] /\ Continue("createEvent.desc")
    /\ UNCHANGED sessionVars

\* createEvent, lines 204-207
CreateDescription ==
    /\ pc = "createEvent.desc"
    /\ \E read \in Reads(Descriptions) : Prompt("Description: ", read) /\
        LET r == promptForInput(read)
        IN  IF r.err THEN Return(ReadError) /\ UNCHANGED op
            ELSE op' = [op EXCEPT !.desc = r.text] /\ Continue("createEvent.start")
    /\ UNCHANGED sessionVars

CreateStart_goesOn ==
    /\ pc = "createEvent.start"
    /\ \E read \in Reads(CreateTimes) : Prompt("Start (YYYY-MM-DD HH:MM): ", read) /\
        LET r == promptForInput(read)
            p == parseTime(r.text)
        IN  IF r.err THEN Return(ReadError) /\ UNCHANGED op
            ELSE /\ op' = [op EXCEPT !.startInput = r.text, !.startTime = p.wire]
                 /\ Continue("createEvent.end")
    /\ UNCHANGED sessionVars

\* createEvent, lines 209-217
CreateStart ==
    /\ pc = "createEvent.start"
    /\ \E read \in Reads(CreateTimes) : Prompt("Start (YYYY-MM-DD HH:MM): ", read) /\
        LET r == promptForInput(read)
            p == parseTime(r.text)
        IN  IF r.err THEN Return(ReadError) /\ UNCHANGED op
            ELSE IF p.err # NoError
            THEN Return(p.err) /\ op' = [op EXCEPT !.startInput = r.text]
            ELSE /\ op' = [op EXCEPT !.startInput = r.text, !.startTime = p.wire]
                 /\ Continue("createEvent.end")
    /\ UNCHANGED sessionVars

createRangeError_swapped(startTime, endTime) ==
    LET start == ParseRFC3339(startTime)
        end == ParseRFC3339(endTime)
    IN  IF Before(start, end) THEN EndBeforeStart ELSE NoError

\* the range check of createEvent, lines 229-233
createRangeError(startTime, endTime) ==
    LET start == ParseRFC3339(startTime)
        end == ParseRFC3339(endTime)
    IN  IF Before(end, start) THEN EndBeforeStart ELSE NoError

\* the event createEvent builds, lines 235-240
createdEvent(title, desc, startTime, endTime) ==
    [nil |-> FALSE, Id |-> <<>>, Summary |-> title, Description |-> desc,
     Start |-> EventDateTime(startTime, "", timeZone),
     End |-> EventDateTime(endTime, "", timeZone),
     Status |-> ""]

\* createEvent, lines 219-240
CreateEnd ==
    /\ pc = "createEvent.end"
    /\ \E read \in Reads(CreateTimes) : Prompt("End   (YYYY-MM-DD HH:MM): ", read) /\
        LET r == promptForInput(read)
            p == parseTime(r.text)
            range == createRangeError(op.startTime, p.wire)
        IN  IF r.err THEN Return(ReadError) /\ UNCHANGED op
            ELSE IF p.err # NoError
            THEN Return(p.err) /\ op' = [op EXCEPT !.endInput = r.text]
            ELSE IF range # NoError
            THEN /\ Return(range)
                 /\ op' = [op EXCEPT !.endInput = r.text, !.endTime = p.wire]
            ELSE /\ op' = [op EXCEPT !.endInput = r.text, !.endTime = p.wire,
                                     !.event = createdEvent(op.title, op.desc,
                                                            op.startTime, p.wire)]
                 /\ Continue("createEvent.Insert")
    /\ UNCHANGED sessionVars

\* createEvent, lines 242-248
CreateInsert ==
    /\ pc = "createEvent.Insert"
    /\ UNCHANGED stdin
    /\ \/ /\ log' = Append(log, <<"Insert", calendarID, op.event>>)
          /\ Return(Wrap("unable to create event", RemoteError))
       \/ /\ log' = log \o << <<"Insert", calendarID, op.event>>,
                             <<"print", "Event created successfully!">> >>
          /\ Return(NoError)
    /\ UNCHANGED <<sessionVars, op>>

\* getEvent, lines 252-255
GetId ==
    /\ pc = "getEvent"
    /\ \E read \in Reads(EventIds) : Prompt("Event ID: ", read) /\
        LET r == promptForInput(read)
        IN  IF r.err THEN Return(ReadError) /\ UNCHANGED op
            ELSE op' = [op EXCEPT !.id = r.text] /\ Continue("getEvent.Get")
    /\ UNCHANGED sessionVars

\* getEvent, lines 257-275
GetEvent ==
    /\ pc = "getEvent.Get"
    /\ UNCHANGED stdin
    /\ \/ /\ log' = Append(log, <<"Get", calendarID, op.id, "error">>)
          /\ Return(Wrap("unable to retrieve event", RemoteError))
          /\ UNCHANGED op
       \/ \E e \in RemoteEvents(op.id) :
            /\ log' = log \o << <<"Get", calendarID, op.id, "ok">>,
                               <<"print", "Event Details:", e>> >>
            /\ op' = [op EXCEPT !.event = e]
            /\ Return(NoError)
    /\ UNCHANGED sessionVars

\* updateEvent, lines 279-282
UpdateId ==
    /\ pc = "updateEvent"
    /\ \E read \in Reads(EventIds) : Prompt("Event ID: ", read) /\
        LET r == promptForInput(read)
        IN  IF r.err THEN Return(ReadError) /\ UNCHANGED op
            ELSE op' = [op EXCEPT !.id = r.text] /\ Continue("updateEvent.Get")
    /\ UNCHANGED sessionVars

\* updateEvent, lines 284-289: fetch the event and print its title
UpdateGet ==
    /\ pc = "updateEvent.Get"
    /\ UNCHANGED stdin
    /\ \/ /\ log' = Append(log, <<"Get", calendarID, op.id, "error">>)
          /\ Return(Wrap("unable to retrieve event for update", RemoteError))
          /\ UNCHANGED op
       \/ \E e \in RemoteEvents(op.id) :
            /\ log' = log \o << <<"Get", calendarID, op.id, "ok">>,
                               <<"print", "Current title:", e.Summary>> >>
            /\ op' = [op EXCEPT !.event = e, !.fetched = e]
            /\ Continue("updateEvent.title")
    /\ UNCHANGED sessionVars

withTitle_always(event, title) == [event EXCEPT !.Summary = title]

\* updateEvent, lines 294-296: a title that is not empty replaces the summary
withTitle(event, title) ==
    IF title # <<>> THEN [event EXCEPT !.Summary = title] ELSE event

\* updateEvent, lines 303-305
withDescription(event, desc) ==
    IF desc # <<>> THEN [event EXCEPT !.Description = desc] ELSE event

\* updateEvent, lines 290-298
UpdateTitle ==
    /\ pc = "updateEvent.title"
    /\ \E read \in Reads(Titles) : Readable(read) /\ Consume(read) /\
        LET r == promptForInput(read)
            asked == log \o Asked("New title (leave empty to keep current): ", read)
        IN  IF r.err
            THEN log' = asked /\ Return(ReadError) /\ UNCHANGED op
            ELSE /\ op' = [op EXCEPT !.title = r.text,
                                     !.event = withTitle(op.event, r.text)]
                 /\ log' = Append(asked, <<"print", "Current description:",
                                           op.event.Description>>)
                 /\ Continue("updateEvent.desc")
    /\ UNCHANGED sessionVars

\* updateEvent, lines 299-305
UpdateDescription ==
    /\ pc = "updateEvent.desc"
    /\ \E read \in Reads(Descriptions) : Prompt("New description (leave empty to keep current): ", read) /\
        LET r == promptForInput(read)
        IN  IF r.err THEN Return(ReadError) /\ UNCHANGED op
            ELSE /\ op' = [op EXCEPT !.desc = r.text,
                                     !.event = withDescription(op.event, r.text)]
                 /\ Continue("updateEvent.updateTime")
    /\ UNCHANGED sessionVars

updatesTime_unlessNo(updateTime) == ToLower(updateTime) # <<"n">>

\* updateEvent, line 312: the answer that opens the time fields
updatesTime(updateTime) == ToLower(updateTime) = <<"y">>

\* updateEvent, lines 307-312: the yes/no gate of the time fields
UpdateTime ==
    /\ pc = "updateEvent.updateTime"
    /\ \E read \in Reads(YesNo) : Prompt("Update time? (y/n): ", read) /\
        LET r == promptForInput(read)
        IN  IF r.err THEN Return(ReadError) /\ UNCHANGED op
            ELSE /\ op' = [op EXCEPT !.updateTime = r.text]
                 /\ IF updatesTime(r.text)
                    THEN Continue("updateEvent.start")
                    ELSE Continue("updateEvent.Update")
    /\ UNCHANGED sessionVars

\* updateEvent, lines 313-324
UpdateStart ==
    /\ pc = "updateEvent.start"
    /\ \E read \in Reads(UpdateTimes) : Prompt("Start (YYYY-MM-DD HH:MM, current: %s): ", read) /\
        LET r == promptForInput(read)
            p == parseTime(r.text)
        IN  IF r.err THEN Return(ReadError) /\ UNCHANGED op
            ELSE IF r.text = <<>>
            THEN op' = [op EXCEPT !.startInput = r.text] /\ Continue("updateEvent.end")
            ELSE IF p.err # NoError
            THEN Return(p.err) /\ op' = [op EXCEPT !.startInput = r.text]
            ELSE /\ op' = [op EXCEPT !.startInput = r.text, !.startTime = p.wire,
                                     !.event.Start.DateTime = p.wire]
                 /\ Continue("updateEvent.end")
    /\ UNCHANGED sessionVars

\* the range check of updateEvent, lines 339-343, on the merged event
updateRangeError(event) ==
    LET start == ParseRFC3339(event.Start.DateTime)
        end == ParseRFC3339(event.End.DateTime)
    IN  IF Before(end, start) THEN EndBeforeStart ELSE NoError

\* updateEvent, lines 326-344
UpdateEnd ==
    /\ pc = "updateEvent.end"
    /\ \E read \in Reads(UpdateTimes) : Prompt("End (YYYY-MM-DD HH:MM, current: %s): ", read) /\
        LET r == promptForInput(read)
            p == parseTime(r.text)
            merged == IF r.text = <<>> THEN op.event
                      ELSE [op.event EXCEPT !.End.DateTime = p.wire]
            range == updateRangeError(merged)
        IN  IF r.err THEN Return(ReadError) /\ UNCHANGED op
            ELSE IF r.text # <<>> /\ p.err # NoError
            THEN Return(p.err) /\ op' = [op EXCEPT !.endInput = r.text]
            ELSE /\ op' = [op EXCEPT !.endInput = r.text,
                                     !.endTime = IF r.text = <<>> THEN @ ELSE p.wire,
                                     !.event = merged]
                 /\ IF range # NoError THEN Return(range)
                    ELSE Continue("updateEvent.Update")
    /\ UNCHANGED sessionVars

\* updateEvent, lines 346-352
UpdateSubmit ==
    /\ pc = "updateEvent.Update"
    /\ UNCHANGED stdin
    /\ \/ /\ log' = Append(log, <<"Update", calendarID, op.id, op.event>>)
          /\ Return(Wrap("unable to update event", RemoteError))
       \/ /\ log' = log \o << <<"Update", calendarID, op.id, op.event>>,
                             <<"print", "Event updated successfully!">> >>
          /\ Return(NoError)
    /\ UNCHANGED <<sessionVars, op>>

\* deleteEvent, lines 356-359
DeleteId ==
    /\ pc = "deleteEvent"
    /\ \E read \in Reads(EventIds) : Prompt("Event ID to delete: ", read) /\
        LET r == promptForInput(read)
        IN  IF r.err THEN Return(ReadError) /\ UNCHANGED op
            ELSE op' = [op EXCEPT !.id = r.text] /\ Continue("deleteEvent.confirm")
    /\ UNCHANGED sessionVars

confirmed_prefix(confirm) ==
    confirm # <<>> /\ ToLower(<<Head(confirm)>>) = <<"y">>

\* deleteEvent, line 366: the confirmation that lets the delete go on
confirmed(confirm) == ToLower(confirm) = <<"y">>

\* deleteEvent, lines 361-369
DeleteConfirm ==
    /\ pc = "deleteEvent.confirm"
    /\ \E read \in Reads(Confirmations) : Readable(read) /\ Consume(read) /\
        LET r == promptForInput(read)
            asked == log \o Asked("Are you sure you want to delete event %s? (y/n): ", read)
        IN  IF r.err
            THEN log' = asked /\ Return(ReadError) /\ UNCHANGED op
            ELSE IF ~confirmed(r.text)
            THEN /\ log' = Append(asked, <<"print", "Deletion cancelled.">>)
                 /\ op' = [op EXCEPT !.confirm = r.text]
                 /\ Return(NoError)
            ELSE /\ log' = asked
                 /\ op' = [op EXCEPT !.confirm = r.text]
                 /\ Continue("deleteEvent.Delete")
    /\ UNCHANGED sessionVars

\* deleteEvent, lines 371-377
DeleteEvent ==
    /\ pc = "deleteEvent.Delete"
    /\ UNCHANGED stdin
    /\ \/ /\ log' = Append(log, <<"Delete", calendarID, op.id>>)
          /\ Return(Wrap("unable to delete event", RemoteError))
       \/ /\ log' = log \o << <<"Delete", calendarID, op.id>>,
                             <<"print", "Event deleted successfully.">> >>
          /\ Return(NoError)
    /\ UNCHANGED <<sessionVars, op>>

----------------------------------------------------------------------------

Next ==
    \/ ReadConfig
    \/ LoadToken
    \/ ReadAuthCode
    \/ Exchange
    \/ OpenTokenFile
    \/ EncodeToken
    \/ NewService
    \/ ListCalendars
    \/ SelectCalendar
    \/ Menu
    \/ ListEvents
    \/ CreateTitle
    \/ CreateDescription
    \/ CreateStart
    \/ CreateEnd
    \/ CreateInsert
    \/ GetId
    \/ GetEvent
    \/ UpdateId
    \/ UpdateGet
    \/ UpdateTitle
    \/ UpdateDescription
    \/ UpdateTime
    \/ UpdateStart
    \/ UpdateEnd
    \/ UpdateSubmit
    \/ DeleteId
    \/ DeleteConfirm
    \/ DeleteEvent

Spec == Init /\ [][Next]_vars

----------------------------------------------------------------------------
(* The credential store across invocations: a save, then the load of the
   next run of the program *)

\* the credentials a save may be given: the issued ones, and one that was
\* itself loaded from a file
StoreTokens ==
    IssuedTokens \cup
    {[AccessToken |-> "access3", TokenType |-> "Bearer", RefreshToken |-> "",
      Expiry |-> 3, raw |-> "nil"]}

\* the files a save or a load may find at the token path
StoreFiles ==
    InitialTokenFiles \cup
    {[exists |-> TRUE, perm |-> "0600",
      data |-> Encode(CHOOSE t \in IssuedTokens : t.Expiry = 2)],
     [exists |-> TRUE, perm |-> "0600", data |-> EmptyData],
     [exists |-> TRUE, perm |-> "0600",
      data |-> [kind |-> "partial",
                of |-> Encode(CHOOSE t \in IssuedTokens : t.Expiry = 1)]]}

\* getClient at the call of tokenFromFile (line 46), or at the call of
\* saveToken (line 53) with a credential in hand
InitStore ==
    /\ pc \in {"getClient", "saveToken"}
    /\ credentials = "ok"
    /\ tokenFile \in StoreFiles
    /\ tok \in IF pc = "saveToken" THEN StoreTokens ELSE {NoToken}
    /\ code = <<>>
    /\ calendars = <<>>
    /\ calendarSelection = <<>>
    /\ calendarID = <<>>
    /\ opChoice = <<>>
    /\ op = NoOp
    /\ opErr = NoError
    /\ exitCode = -1
    /\ stderr = <<>>
    /\ stdin \in StandardInputs
    /\ log = <<>>

\* the process ends and the program is run again: main, lines 380-400, up
\* to the call of getClient; the token file is what the last run left
NextInvocation ==
    /\ pc \in {"client", "exited"}
    /\ UNCHANGED stdin
    /\ Cardinality({i \in 1..Len(log) : log[i][1] = "invocation"}) < MaxRestarts
    /\ log' = Append(log, <<"invocation", tok, pc = "client">>)
    /\ pc' = "getClient"
    /\ tok' = NoToken
    /\ exitCode' = -1
    /\ stderr' = <<>>
    /\ UNCHANGED <<credentials, tokenFile, selectorVars, opChoice, op, opErr>>

NextStore ==
    \/ LoadToken
    \/ OpenTokenFile
    \/ EncodeToken
    \/ NextInvocation

SpecStore == InitStore /\ [][NextStore]_vars

----------------------------------------------------------------------------
(* Reading the log *)

\* positions of the log entries of a kind
Kinds(k) == {i \in DOMAIN log : log[i][1] = k}

Has(k) == \E i \in DOMAIN log : log[i][1] = k

\* positions where the prompt with this label was printed
Prompts(label) ==
    {i \in DOMAIN log : log[i][1] = "prompt" /\ log[i][2] = label}

\* the prompt with this label was answered with a line
WasRead(label) ==
    \E i \in Prompts(label) : i < Len(log) /\ log[i + 1][1] = "line"

\* the line, as typed, that answered the prompt
RawLine(label) == log[(CHOOSE i \in Prompts(label) : TRUE) + 1][2]

\* the line holds nothing but white space
IsBlank(raw) == \A i \in DOMAIN raw : IsSpace(raw[i])

\* calls of the calendar service
CalendarCalls ==
    {i \in DOMAIN log :
        log[i][1] \in {"CalendarList.List", "Events.List", "Insert", "Get",
                       "Update", "Delete"}}

\* the events submitted by Insert and Update calls
Submitted ==
    {log[i][3] : i \in Kinds("Insert")} \cup {log[i][4] : i \in Kinds("Update")}

\* the civil date-time a is earlier than b, field by field
CivilBefore(a, b) ==
    \/ a.year < b.year
    \/ a.year = b.year /\ a.month < b.month
    \/ a.year = b.year /\ a.month = b.month /\ a.day < b.day
    \/ a.year = b.year /\ a.month = b.month /\ a.day = b.day /\ a.hour < b.hour
    \/ a.year = b.year /\ a.month = b.month /\ a.day = b.day /\ a.hour = b.hour
       /\ a.min < b.min

CivilEqual(a, b) == ~CivilBefore(a, b) /\ ~CivilBefore(b, a)

CreateStartLabel == "Start (YYYY-MM-DD HH:MM): "
CreateEndLabel == "End   (YYYY-MM-DD HH:MM): "
UpdateStartLabel == "Start (YYYY-MM-DD HH:MM, current: %s): "
UpdateEndLabel == "End (YYYY-MM-DD HH:MM, current: %s): "
TitleLabel == "New title (leave empty to keep current): "
DescriptionLabel == "New description (leave empty to keep current): "
ConfirmLabel == "Are you sure you want to delete event %s? (y/n): "
SelectionLabel == "Enter calendar number or ID: "
AuthCodeLabel == "Authorization code: "

\* the operator typed two valid date-times as the bounds, in Create or in
\* the time gate of Update
BothBoundsTyped ==
    /\ \/ WasRead(CreateStartLabel) /\ WasRead(CreateEndLabel)
       \/ WasRead(UpdateStartLabel) /\ WasRead(UpdateEndLabel)
    /\ ~ParseTimeFormat(op.startInput).err
    /\ ~ParseTimeFormat(op.endInput).err

TypedStart == ParseTimeFormat(op.startInput).t
TypedEnd == ParseTimeFormat(op.endInput).t

----------------------------------------------------------------------------
(* Claims *)

\* C1: when the operator types an end that precedes the start (both bounds
\* typed, in Create or Update), the operation fails with the validation
\* error and no Insert or Update call is made; equal bounds are accepted.
C1_EndBeforeStartRejected ==
    BothBoundsTyped =>
        LET start == TypedStart
            end == TypedEnd
        IN  /\ CivilBefore(end, start) =>
                  /\ pc = "exited" /\ exitCode = 1
                  /\ opErr = EndBeforeStart
                  /\ ~Has("Insert") /\ ~Has("Update")
            /\ CivilEqual(end, start) =>
                  /\ opErr # EndBeforeStart
                  /\ pc = "exited" => Has("Insert") \/ Has("Update")

C1_Witness ==
    /\ WasRead(CreateEndLabel) /\ BothBoundsTyped
    /\ CivilBefore(TypedEnd, TypedStart)
    /\ opErr = EndBeforeStart

\* C2: the remote delete is called only after a confirmation equal to "y"
\* in either case; after any other confirmation no delete call is made, the
\* cancellation notice is printed and the operation ends successfully.
C2_DeleteOnlyWhenConfirmed ==
    /\ \A d \in Kinds("Delete") :
          /\ op.confirm \in {<<"y">>, <<"Y">>}
          /\ \E i \in Prompts(ConfirmLabel) : i + 1 < d /\ log[i + 1][1] = "line"
    /\ (WasRead(ConfirmLabel) /\ op.confirm \notin {<<"y">>, <<"Y">>}) =>
          /\ ~Has("Delete")
          /\ log[Len(log)][1] = "print" /\ log[Len(log)][2] = "Deletion cancelled."
          /\ pc = "exited" /\ exitCode = 0 /\ opErr = NoError

C2_Witness ==
    /\ WasRead(ConfirmLabel) /\ op.confirm = <<"y", "e", "s">>
    /\ pc = "exited" /\ exitCode = 0

\* the instant a submitted bound carries
BoundInstant(bound) == Instant(ParseRFC3339(bound.DateTime))

\* the instant of a civil date-time read in the configured zone
InConfiguredZone(t) ==
    Instant(Date(t.year, t.month, t.day, t.hour, t.min, KolkataOffset))

\* C3: a typed date-time is interpreted in Asia/Kolkata: the wire timestamp
\* of parseTime carries that zone's offset and the bound submitted carries
\* the instant of the typed civil date-time in that zone.
C3_TypedTimeInConfiguredZone ==
    \A ev \in Submitted :
        /\ ~ParseTimeFormat(op.startInput).err =>
              /\ ev.Start.DateTime.offset = KolkataOffset
              /\ BoundInstant(ev.Start) = InConfiguredZone(TypedStart)
        /\ ~ParseTimeFormat(op.endInput).err =>
              /\ ev.End.DateTime.offset = KolkataOffset
              /\ BoundInstant(ev.End) = InConfiguredZone(TypedEnd)

\* the text is an integer: an optional sign and digits, nothing else
IsInteger(s) ==
    /\ s # <<>>
    /\ LET body == IF Head(s) \in {"+", "-"} THEN Tail(s) ELSE s
       IN  body # <<>> /\ \A i \in DOMAIN body : body[i] \in Digits

IntegerValue(s) ==
    IF Head(s) = "-" THEN 0 - decimal(Tail(s), 0)
    ELSE IF Head(s) = "+" THEN decimal(Tail(s), 0)
    ELSE decimal(s, 0)

\* C4: a selection that is an integer k with 1 <= k <= count resolves to
\* the identifier of the calendar listed at position k.
C4_NumberSelectsThatPosition ==
    (WasRead(SelectionLabel) /\ IsInteger(calendarSelection)
     /\ IntegerValue(calendarSelection) \in 1..Len(calendars)) =>
        calendarID = calendars[IntegerValue(calendarSelection)].Id

\* C5: a selection that is an integer outside 1..count fails with the
\* invalid-selection error; it resolves to no listed calendar, is not
\* taken as an identifier, and no event operation follows.
C5_NumberOutOfRangeRejected ==
    (WasRead(SelectionLabel) /\ IsInteger(calendarSelection)
     /\ IntegerValue(calendarSelection) \notin 1..Len(calendars)) =>
        /\ pc = "exited" /\ exitCode = 1
        /\ stderr = <<"Failed to select calendar", "invalid calendar number">>
        /\ \A i \in DOMAIN calendars : calendarID # calendars[i].Id
        /\ calendarID # calendarSelection
        /\ ~Has("Events.List") /\ ~Has("Insert") /\ ~Has("Get")
        /\ ~Has("Update") /\ ~Has("Delete")

\* C6: a selection that is not an integer is returned unchanged as the
\* calendar identifier, whatever the list holds.
C6_LiteralSelectionUnchanged ==
    (WasRead(SelectionLabel) /\ ~IsInteger(calendarSelection)) =>
        calendarID = calendarSelection

\* the time fields were left alone: the gate declined, or both answers blank
TimesDeclined ==
    /\ WasRead("Update time? (y/n): ")
    /\ \/ op.updateTime \notin {<<"y">>, <<"Y">>}
       \/ /\ WasRead(UpdateStartLabel) /\ IsBlank(RawLine(UpdateStartLabel))
          /\ WasRead(UpdateEndLabel) /\ IsBlank(RawLine(UpdateEndLabel))

\* C7: an Update answered with blank title and description submits the
\* fetched title and description; an Update answered with a title and
\* nothing else submits the fetched event with only the title changed.
C7_BlankKeepsField ==
    \A i \in Kinds("Update") :
        LET ev == log[i][4]
            rawTitle == RawLine(TitleLabel)
            rawDesc == RawLine(DescriptionLabel)
        IN  /\ (IsBlank(rawTitle) /\ IsBlank(rawDesc)) =>
                  /\ ev.Summary = op.fetched.Summary
                  /\ ev.Description = op.fetched.Description
            /\ (~IsBlank(rawTitle) /\ IsBlank(rawDesc) /\ TimesDeclined) =>
                  /\ ev.Summary = TrimSpace(rawTitle)
                  /\ [ev EXCEPT !.Summary = op.fetched.Summary] = op.fetched

C7_Witness ==
    /\ Has("Update")
    /\ RawLine(TitleLabel) = Line(<<" ">>)
    /\ IsBlank(RawLine(DescriptionLabel))
    /\ op.fetched.Summary # <<>>

\* positions where the cached token was loaded, with the outcome given
Loads(ok) == {i \in Kinds("load") : log[i][2] = ok}

AuthURLPrints == {i \in Kinds("print") : log[i][2] = "authURL"}

\* C8: when the token file loads, the loaded credential is wrapped as it
\* is: no authorization URL is printed, no code is read, no exchange is
\* made and the token file is not written in the session.
C8_LoadedTokenReused ==
    \A i \in Loads(TRUE) :
        /\ AuthURLPrints = {}
        /\ Prompts(AuthCodeLabel) = {}
        /\ ~Has("Exchange")
        /\ ~Has("truncate") /\ ~Has("write")
        /\ tokenFile = log[i][3]
        /\ \A c \in Kinds("client") :
              /\ log[c][2].AccessToken = log[i][3].data.access_token
              /\ log[c][2].RefreshToken = log[i][3].data.refresh_token
              /\ log[c][2].Expiry = log[i][3].data.expiry

C8_Witness == Loads(TRUE) # {} /\ Has("client") /\ Has("CalendarList.List")

\* the log entries of the authorization flow, and the order they come in
AuthSteps == <<"authURL", "prompt", "line", "Exchange", "truncate", "write", "client">>

AuthStep(i) ==
    LET e == log[i]
    IN  IF e[1] = "print" THEN (IF e[2] = "authURL" THEN "authURL" ELSE "none")
        ELSE IF e[1] = "prompt"
        THEN (IF e[2] = AuthCodeLabel THEN "prompt" ELSE "none")
        ELSE IF e[1] = "line"
        THEN (IF i > 1 /\ log[i - 1][1] = "prompt" /\ log[i - 1][2] = AuthCodeLabel
              THEN "line" ELSE "none")
        ELSE IF e[1] \in {"Exchange", "truncate", "write", "client"} THEN e[1]
        ELSE "none"

\* the data is the complete record of the token
RecordOf(data, token) ==
    /\ data.kind = "json"
    /\ data.access_token = token.AccessToken
    /\ data.token_type = token.TokenType
    /\ data.refresh_token = token.RefreshToken
    /\ data.expiry = token.Expiry

\* C9: when the token file does not load, the steps come in the order
\* print URL, read one line as the code, exchange it, save the credential,
\* return the client; the credential is in the file before any
\* calendar-service call, and what is written to the file is the
\* credential a successful exchange returned.
C9_AcquisitionOrder ==
    Loads(FALSE) # {} =>
        LET steps == [i \in DOMAIN log |-> AuthStep(i)]
            auth == {i \in DOMAIN log : steps[i] # "none"}
        IN  /\ Cardinality(auth) <= Len(AuthSteps)
            /\ \A i \in auth :
                  steps[i] = AuthSteps[Cardinality({j \in auth : j <= i})]
            /\ \A e \in Kinds("Exchange") : log[e][2] = TrimSpace(log[e - 1][2])
            /\ \A w \in Kinds("write") :
                  /\ \E e \in Kinds("Exchange") : e < w /\ log[e][3] = "ok"
                  /\ tok \in IssuedTokens
                  /\ \/ RecordOf(log[w][2], tok)
                     \/ /\ \/ log[w][2].kind = "empty"
                           \/ /\ log[w][2].kind = "partial"
                              /\ RecordOf(log[w][2].of, tok)
                        /\ pc = "exited" /\ exitCode = 1
            /\ \A c \in CalendarCalls :
                  /\ Cardinality({j \in auth : j < c}) = Len(AuthSteps)
                  /\ RecordOf(tokenFile.data, tok)

C9_Witness ==
    /\ Loads(FALSE) # {} /\ Has("CalendarList.List")
    /\ RecordOf(tokenFile.data, tok)

\* C10: a failed code exchange ends the session at once: exit status 1, a
\* message that carries the cause, nothing written to the token file and
\* no calendar-service call.
C10_FailedExchangeFatal ==
    \A e \in Kinds("Exchange") :
        log[e][3] # "ok" =>
            /\ e = Len(log)
            /\ pc = "exited" /\ exitCode = 1
            /\ \E k \in DOMAIN stderr : stderr[k] = log[e][3]
            /\ ~Has("truncate") /\ ~Has("write")
            /\ \A i \in Kinds("load") : tokenFile = log[i][3]
            /\ CalendarCalls = {}

C10_Witness ==
    /\ pc = "exited"
    /\ \E e \in Kinds("Exchange") : log[e][3] \in ExchangeErrors

----------------------------------------------------------------------------
(* The credential store *)

\* the two credentials agree in what a credential is made of: the access
\* token, its type, the refresh token and the expiry
SameCredential(a, b) ==
    /\ a.AccessToken = b.AccessToken
    /\ a.TokenType = b.TokenType
    /\ a.RefreshToken = b.RefreshToken
    /\ a.Expiry = b.Expiry

\* the loads that follow, in the next run, a save that succeeded
LoadsAfterSave ==
    {l \in Kinds("load") :
        /\ l > 3
        /\ log[l - 1][1] = "invocation" /\ log[l - 1][3]
        /\ log[l - 2][1] = "write"
        /\ log[l - 3][1] = "truncate"}

\* C11: a credential that was saved is the credential the next load
\* returns, whatever the file held before the save; the load of a path
\* that does not exist returns an error, after which getClient goes on to
\* the authorization flow.
C11_SaveLoadRoundTrip ==
    /\ \A l \in LoadsAfterSave :
          /\ log[l][2]
          /\ SameCredential(log[l][4], log[l - 1][2])
    /\ \A l \in Kinds("load") :
          ~log[l][3].exists =>
              /\ ~log[l][2]
              /\ l = Len(log) => pc = "getTokenFromWeb" /\ exitCode = -1

C11_Witness ==
    \E l \in LoadsAfterSave :
          /\ log[l - 3][3].data.kind = "json"
          /\ log[l - 3][3].data # log[l - 2][2]
          /\ log[l - 1][2].RefreshToken # ""
          /\ log[l][2]

\* C12: after every save that succeeded the token file is readable and
\* writable by its owner only, both when the save created the file and
\* when it rewrote a file that existed with broader permissions.
C12_SavedFileOwnerOnly ==
    \A w \in Kinds("write") :
        log[w][2].kind = "json" => tokenFile.perm = "0600"

\* C13: at every point during and after a save, a save that fails between
\* the open and the end of the write included, the token file holds what
\* it held before the save or the complete record of the new credential,
\* never an empty or a partial record.
C13_SaveReplacesAtomically ==
    \A t \in Kinds("truncate") :
        \/ tokenFile.exists = log[t][3].exists /\ tokenFile.data = log[t][3].data
        \/ RecordOf(tokenFile.data, tok)

----------------------------------------------------------------------------
(* The time fields of Update *)

\* the first minute of an all-day date, in minutes as Instant counts them
DayStart(date) ==
    CASE date = "2024-03-15" -> Instant(Date(2024, 3, 15, 0, 0, 0))
      [] date = "2024-03-16" -> Instant(Date(2024, 3, 16, 0, 0, 0))

\* the instant at which a bound of an event lies: that of its date-time,
\* or the start of its date when it has no date-time
EventInstant(bound) ==
    IF bound.DateTime.empty THEN DayStart(bound.Date)
    ELSE LET w == bound.DateTime
         IN  Instant(Date(w.year, w.month, w.day, w.hour, w.min, w.offset))

\* the operator answered the time gate of Update with yes
GateOpened == op.updateTime \in {<<"y">>, <<"Y">>}

\* C14: when the operator opens the time gate, Update is called only with
\* an event whose start instant is not after its end instant, whichever
\* bounds were typed and whichever were kept from the fetched event, an
\* all-day event or one with another UTC offset included.
C14_UpdateValidatesMergedBounds ==
    \A u \in Kinds("Update") :
        GateOpened => EventInstant(log[u][4].Start) <= EventInstant(log[u][4].End)

\* C15: the start and the end Update submits are those of the fetched
\* event unless the operator answers the time gate with yes (the start and
\* end prompts are not even issued otherwise); inside the gate a blank
\* start keeps the fetched start and a blank end keeps the fetched end,
\* each independently of the other.
C15_TimeGateFrame ==
    /\ (WasRead("Update time? (y/n): ") /\ ~GateOpened) =>
          Prompts(UpdateStartLabel) = {} /\ Prompts(UpdateEndLabel) = {}
    /\ \A u \in Kinds("Update") :
          LET ev == log[u][4]
              fetched == op.fetched
          IN  /\ ~GateOpened => ev.Start = fetched.Start /\ ev.End = fetched.End
              /\ (GateOpened /\ IsBlank(RawLine(UpdateStartLabel))) =>
                    ev.Start = fetched.Start
              /\ (GateOpened /\ IsBlank(RawLine(UpdateEndLabel))) =>
                    ev.End = fetched.End

C15_Witness ==
    \E u \in Kinds("Update") :
        /\ GateOpened
        /\ IsBlank(RawLine(UpdateStartLabel)) /\ ~IsBlank(RawLine(UpdateEndLabel))
        /\ log[u][4].Start = op.fetched.Start
        /\ log[u][4].End # op.fetched.End

----------------------------------------------------------------------------
(* Failing fast *)

TimeLabels == {CreateStartLabel, CreateEndLabel, UpdateStartLabel, UpdateEndLabel}

InvalidFormat == "invalid time format (use YYYY-MM-DD HH:MM)"

\* the prompts for a time that were answered with a text parseTime was
\* given and did not parse (Update does not parse a blank answer)
FailedTimePrompts ==
    {i \in Kinds("prompt") :
        /\ log[i][2] \in TimeLabels
        /\ i < Len(log) /\ log[i + 1][1] = "line"
        /\ LET text == TrimSpace(log[i + 1][2])
           IN  /\ ParseTimeFormat(text).err
               /\ log[i][2] \in {UpdateStartLabel, UpdateEndLabel} => text # <<>>}

\* C16: in Create and Update the first time text that does not parse ends
\* the operation at that field: no later prompt is issued and no Insert or
\* Update call is made; in Update a failed fetch ends the operation before
\* any field prompt.
C16_FailFast ==
    /\ \A i \in FailedTimePrompts :
          /\ Len(log) = i + 1
          /\ pc = "exited" /\ exitCode = 1
          /\ opErr # NoError /\ opErr[1] = InvalidFormat
          /\ ~Has("Insert") /\ ~Has("Update")
    /\ \A g \in Kinds("Get") :
          (opChoice = <<"4">> /\ log[g][4] = "error") =>
              /\ Len(log) = g
              /\ pc = "exited" /\ exitCode = 1
              /\ ~Has("Update")

C16_Witness ==
    /\ \E i \in FailedTimePrompts : log[i][2] = CreateStartLabel
    /\ Prompts(CreateEndLabel) = {}
    /\ pc = "exited"

----------------------------------------------------------------------------
(* The main menu *)

MenuLabel == "Enter choice (1-5): "

\* calls of the calendar service made by the event operations
EventCalls ==
    {i \in DOMAIN log :
        log[i][1] \in {"Events.List", "Insert", "Get", "Update", "Delete"}}

\* what belongs to the operation of a menu choice: where it starts, the
\* positions it runs through, the remote calls it makes and the prompts it
\* issues
Operation(choice) ==
    CASE choice = <<"1">> ->
           [start |-> "listEvents", pcs |-> {"listEvents"},
            calls |-> {"Events.List"}, prompts |-> {}]
      [] choice = <<"2">> ->
           [start |-> "createEvent",
            pcs |-> {"createEvent", "createEvent.desc", "createEvent.start",
                     "createEvent.end", "createEvent.Insert"},
            calls |-> {"Insert"},
            prompts |-> {"Title: ", "Description: ", CreateStartLabel,
                         CreateEndLabel}]
      [] choice = <<"3">> ->
           [start |-> "getEvent", pcs |-> {"getEvent", "getEvent.Get"},
            calls |-> {"Get"}, prompts |-> {"Event ID: "}]
      [] choice = <<"4">> ->
           [start |-> "updateEvent",
            pcs |-> {"updateEvent", "updateEvent.Get", "updateEvent.title",
                     "updateEvent.desc", "updateEvent.updateTime",
                     "updateEvent.start", "updateEvent.end",
                     "updateEvent.Update"},
            calls |-> {"Get", "Update"},
            prompts |-> {"Event ID: ", TitleLabel, DescriptionLabel,
                         "Update time? (y/n): ", UpdateStartLabel,
                         UpdateEndLabel}]
      [] choice = <<"5">> ->
           [start |-> "deleteEvent",
            pcs |-> {"deleteEvent", "deleteEvent.confirm", "deleteEvent.Delete"},
            calls |-> {"Delete"},
            prompts |-> {"Event ID to delete: ", ConfirmLabel}]

ValidChoices == {<<"1">>, <<"2">>, <<"3">>, <<"4">>, <<"5">>}

\* C17: a menu choice other than exactly "1" to "5" is fatal: the message
\* is the invalid-operation one, the exit status is not zero, no event
\* operation is started and no event call is made; each of "1" to "5"
\* starts its own operation and nothing of another one.
C17_MenuDispatch ==
    \A m \in Prompts(MenuLabel) :
        (m < Len(log) /\ log[m + 1][1] = "line") =>
            LET calls == EventCalls
            IN  IF opChoice \notin ValidChoices
                THEN /\ Len(log) = m + 1
                     /\ pc = "exited" /\ exitCode # 0
                     /\ stderr[1] = "Invalid operation"
                     /\ calls = {}
                ELSE LET o == Operation(opChoice)
                     IN  /\ pc \in o.pcs \cup {"exited"}
                         /\ Len(log) = m + 1 => pc = o.start
                         /\ \A i \in calls : log[i][1] \in o.calls
                         /\ \A i \in (m + 2)..Len(log) :
                               log[i][1] = "prompt" => log[i][2] \in o.prompts

C17_Witness ==
    /\ WasRead(MenuLabel) /\ opChoice = <<"6">>
    /\ pc = "exited" /\ exitCode = 1 /\ EventCalls = {}

----------------------------------------------------------------------------
(* The time validator *)

\* the text has the shape YYYY-MM-DD HH:MM: four digits, two, two, one
\* space, two digits, two
MatchesCivilFormat(s) ==
    /\ Len(s) = 16
    /\ \A i \in {1, 2, 3, 4, 6, 7, 9, 10, 12, 13, 15, 16} : s[i] \in Digits
    /\ s[5] = "-" /\ s[8] = "-" /\ s[11] = " " /\ s[14] = ":"

\* the prompts for a time whose answer parseTime was given
ParsedTimePrompts ==
    {i \in Kinds("prompt") :
        /\ log[i][2] \in TimeLabels
        /\ i < Len(log) /\ log[i + 1][1] = "line"
        /\ log[i][2] \in {UpdateStartLabel, UpdateEndLabel} =>
              TrimSpace(log[i + 1][2]) # <<>>}

\* C18: a text that does not have the shape YYYY-MM-DD HH:MM makes
\* parseTime fail with the invalid-format error and yield no wire
\* timestamp: the operation stores nothing for that bound and makes no
\* Insert or Update call.
C18_OnlyCivilFormatParses ==
    \A i \in ParsedTimePrompts :
        ~MatchesCivilFormat(TrimSpace(log[i + 1][2])) =>
            /\ parseTime(TrimSpace(log[i + 1][2])).err # NoError
            /\ parseTime(TrimSpace(log[i + 1][2])).wire = NoDateTime
            /\ pc = "exited" /\ opErr # NoError /\ opErr[1] = InvalidFormat
            /\ log[i][2] \in {CreateStartLabel, UpdateStartLabel} =>
                  op.startTime = NoDateTime
            /\ log[i][2] \in {CreateEndLabel, UpdateEndLabel} =>
                  op.endTime = NoDateTime
            /\ ~Has("Insert") /\ ~Has("Update")

----------------------------------------------------------------------------
(* The shape of a session *)

\* the phase a log entry belongs to: 1 reading the configuration,
\* 2 authenticating, 3 selecting the calendar, 4 the menu and the event
\* operation; a line belongs to the phase of its prompt
PhaseOf(i) ==
    LET e == IF log[i][1] = "line" THEN log[i - 1] ELSE log[i]
    IN  IF e[1] = "prompt"
        THEN (IF e[2] = AuthCodeLabel THEN 2
              ELSE IF e[2] = SelectionLabel THEN 3 ELSE 4)
        ELSE IF e[1] = "print" THEN (IF e[2] = "authURL" THEN 2 ELSE 4)
        ELSE IF e[1] \in {"load", "Exchange", "truncate", "write", "client"} THEN 2
        ELSE IF e[1] = "read" THEN 1
        ELSE IF e[1] = "CalendarList.List" THEN 3
        ELSE 4

MutatingCalls ==
    {i \in DOMAIN log : log[i][1] \in {"Insert", "Update", "Delete"}}

\* C19: a session reads the configuration, authenticates, selects the
\* calendar once and runs one event operation, in this order; a missing or
\* malformed configuration ends it before any prompt; it makes at most one
\* of the calls Insert, Update and Delete; an Update call comes after a
\* successful Get of the same event in the same session.
C19_SessionShape ==
    LET prompts == Kinds("prompt")
        selections == {i \in prompts : log[i][2] = SelectionLabel}
        menus == {i \in prompts : log[i][2] = MenuLabel}
        calls == EventCalls
    IN  /\ log # <<>> => log[1][1] = "read"
        /\ \A i \in DOMAIN log : i > 1 => PhaseOf(i - 1) <= PhaseOf(i)
        /\ credentials # "ok" =>
              /\ Len(log) <= 1
              /\ log # <<>> => pc = "exited" /\ exitCode = 1
        /\ Cardinality(selections) <= 1
        /\ Cardinality(menus) <= 1
        /\ \A m \in menus :
              \E i \in selections : i + 1 < m /\ log[i + 1][1] = "line"
        /\ calls # {} =>
              /\ \E m \in menus : \A i \in calls : m + 1 < i
              /\ \E c \in ValidChoices :
                    \A i \in calls : log[i][1] \in Operation(c).calls
        /\ Cardinality(calls \cap MutatingCalls) <= 1
        /\ \A u \in calls :
              log[u][1] = "Update" =>
                  \E g \in calls :
                      /\ g < u /\ log[g][1] = "Get"
                      /\ log[g][2] = log[u][2] /\ log[g][3] = log[u][3]
                      /\ log[g][4] = "ok"

C19_Witness ==
    /\ Loads(FALSE) # {} /\ Has("write") /\ WasRead(SelectionLabel)
    /\ Has("Get") /\ Has("Update")
    /\ pc = "exited" /\ exitCode = 0

----------------------------------------------------------------------------
(* Lines of standard input *)

\* C20: each prompt takes exactly one line of standard input: when
\* several lines wait there from the start, the k-th prompt of the session
\* receives the k-th line, trimmed, and no line is skipped or lost between
\* two prompts.
C20_PromptTakesOneLine ==
    /\ \A p \in Kinds("prompt") :
          LET k == Cardinality({q \in Kinds("prompt") : q <= p})
          IN  (stdin.piped /\ k <= stdin.lines) =>
                  /\ p < Len(log)
                  /\ log[p + 1][1] = "line"
                  /\ log[p + 1][3] = k
    /\ stdin.piped => stdin.taken <= Cardinality(Kinds("line"))
    /\ WasRead(SelectionLabel) =>
          calendarSelection = TrimSpace(RawLine(SelectionLabel))
    /\ WasRead(MenuLabel) => opChoice = TrimSpace(RawLine(MenuLabel))

====
